---- MODULE Spec2Model ----
(***************************************************************************)
(* A model of esri-ascii-grid-rs: the header parser (header.rs), the       *)
(* coordinate mapper (index_of / index_pos), the random-access reader with *)
(* its two caches (ascii_file.rs) and the streaming iterator.              *)
(*                                                                         *)
(* The file is a sequence of characters.  A header field name is one       *)
(* symbol ("ncols", "NODATA_value", ...); numbers are written in decimal   *)
(* digits; " " separates tokens and NL ends a line.  Stream positions are  *)
(* indices into that sequence, counted from 0 as the code counts bytes.    *)
(*                                                                         *)
(* The coordinate type T is an integer type (the generic header is         *)
(* instantiated with i16 .. i128 in lib.rs, test_generics): arithmetic is  *)
(* exact and `/` truncates.                                                *)
(***************************************************************************)
EXTENDS Integers, Sequences, FiniteSets, TLC

\* ------------------------------------------------------------------ bounds
MaxRows == 3
MaxCols == 3
\* how many calls of next() are made after the iterator first ended
ExtraCalls == 2

\* ------------------------------------------------------- Option / Result
None == [tag |-> "None"]
Some(v) == [tag |-> "Some", v |-> v]
Ok(v) == [tag |-> "Ok", v |-> v]
Err(e) == [tag |-> "Err", e |-> e]
\* a panic (unwrap on None / Err, index out of range, checked overflow)
Panic == [tag |-> "Panic"]

\* error.rs
MissingField(f) == [kind |-> "MissingField", a |-> f]
MismatchedField(f, g) == [kind |-> "MismatchedField", a |-> f, b |-> g]
MissingValue(f) == [kind |-> "MissingValue", a |-> f]
BrokenInvariant == [kind |-> "BrokenInvariant"]
ParseEnum(s) == [kind |-> "ParseEnum", a |-> s]
ParseFloat == [kind |-> "ParseFloat"]
TypeCast(v, f) == [kind |-> "TypeCast", a |-> v, b |-> f]
MismatchedRowCount(a, b) == [kind |-> "MismatchedRowCount", a |-> a, b |-> b]
MismatchColumnCount(a, b) == [kind |-> "MismatchColumnCount", a |-> a, b |-> b]
OutOfBounds(r, c) == [kind |-> "OutOfBounds", a |-> r, b |-> c]

\* ------------------------------------------------------------------- text
NL == "\n"
SP == " "
Digits == <<"0", "1", "2", "3", "4", "5", "6", "7", "8", "9">>
IsDigit(ch) == \E d \in 1..10 : Digits[d] = ch
DigitVal(ch) == (CHOOSE d \in 1..10 : Digits[d] = ch) - 1

\* str::to_lowercase on one character (a field-name symbol is one character)
to_lowercase_char(ch) ==
    CASE ch = "NCOLS" -> "ncols"
      [] ch = "NROWS" -> "nrows"
      [] ch = "XLLCORNER" -> "xllcorner"
      [] ch = "YLLCORNER" -> "yllcorner"
      [] ch = "XLLCENTER" -> "xllcenter"
      [] ch = "YLLCENTER" -> "yllcenter"
      [] ch = "CELLSIZE" -> "cellsize"
      [] ch = "NODATA_value" -> "nodata_value"
      [] OTHER -> ch
to_lowercase(tok) == [i \in 1..Len(tok) |-> to_lowercase_char(tok[i])]

\* str::split_whitespace: the maximal runs of non-blank characters
RECURSIVE split_ws(_, _, _)
split_ws(chars, cur, acc) ==
    IF chars = <<>> THEN (IF cur = <<>> THEN acc ELSE Append(acc, cur))
    ELSE IF Head(chars) = SP
         THEN split_ws(Tail(chars), <<>>, IF cur = <<>> THEN acc ELSE Append(acc, cur))
         ELSE split_ws(Tail(chars), Append(cur, Head(chars)), acc)
split_whitespace(chars) == split_ws(chars, <<>>, <<>>)

\* decimal value of a run of digits
RECURSIVE DecVal(_, _)
DecVal(tok, acc) ==
    IF tok = <<>> THEN acc ELSE DecVal(Tail(tok), 10 * acc + DigitVal(Head(tok)))
AllDigits(tok) == tok # <<>> /\ \A i \in 1..Len(tok) : IsDigit(tok[i])

\* <usize as FromStr>::from_str
parse_usize(tok) == IF AllDigits(tok) THEN Ok(DecVal(tok, 0)) ELSE Err(ParseFloat)
\* <T as FromStr>::from_str for the numeric type of coordinates and values:
\* an optional sign, then digits
parse_num(tok) ==
    IF AllDigits(tok) THEN Ok(DecVal(tok, 0))
    ELSE IF tok # <<>> /\ Head(tok) = "-" /\ AllDigits(Tail(tok))
         THEN Ok(0 - DecVal(Tail(tok), 0))
         ELSE Err(ParseFloat)

\* BufRead::lines().next() at stream position pos: None at end of file, else the
\* line without its terminator and the position after it
RECURSIVE LineEnd(_, _)
LineEnd(bytes, i) ==
    IF i > Len(bytes) \/ bytes[i] = NL THEN i ELSE LineEnd(bytes, i + 1)
read_line(bytes, pos) ==
    IF pos >= Len(bytes) THEN None
    ELSE LET e == LineEnd(bytes, pos + 1)
         IN  Some([line |-> SubSeq(bytes, pos + 1, e - 1),
                   pos |-> IF e > Len(bytes) THEN Len(bytes) ELSE e])

\* Rust's integer division truncates toward zero
TruncDiv(a, b) ==
    IF (a >= 0) = (b > 0) THEN (IF a >= 0 THEN a \div b ELSE (0 - a) \div (0 - b))
    ELSE 0 - ((IF a >= 0 THEN a ELSE 0 - a) \div (IF b >= 0 THEN b ELSE 0 - b))

\* ----------------------------------------------------------------- usize
\* usize arithmetic: the model keeps usize in [0, UsizeModulus)
UsizeModulus == 65536
\* a - b on usize: with overflow checks (debug profile) an underflow panics,
\* without them (release profile) it wraps
usize_sub(a, b, overflow_checks) ==
    IF a >= b THEN Ok(a - b)
    ELSE IF overflow_checks THEN Panic ELSE Ok(a - b + UsizeModulus)
\* <usize as NumCast>::from(v): None for a negative value
usize_from(v) == IF v < 0 THEN None ELSE Some(v)
Min(a, b) == IF a <= b THEN a ELSE b

\* --------------------------------------------------------------- header.rs
\* CornerType::from_str
CornerType_from_str(field) ==
    LET s == to_lowercase(field)
    IN  IF s = <<"xllcorner">> \/ s = <<"yllcorner">> THEN Ok("Corner")
        ELSE IF s = <<"xllcenter">> \/ s = <<"yllcenter">> THEN Ok("Center")
        ELSE Err(ParseEnum(field))

\* str::parse::<T>() for the two types the header is parsed with
parse(T, tok) == IF T = "usize" THEN parse_usize(tok) ELSE parse_num(tok)

\* parse_header_line without the comparison of the field name
parse_header_line_any_name(line, expected, T) ==
    IF line = None THEN Err(MissingField(expected))
    ELSE LET tokens == split_whitespace(line.v.line)
         IN  IF Len(tokens) < 1 THEN Err(MissingField(expected))
             ELSE IF Len(tokens) < 2 THEN Err(MissingValue(expected))
             ELSE IF parse(T, tokens[2]).tag = "Err"
                  THEN Err(TypeCast(tokens[2], tokens[1]))
             ELSE Ok(parse(T, tokens[2]).v)

\* parse_header_line::<T>(line, expected)
parse_header_line(line, expected, T) ==
    IF line = None THEN Err(MissingField(expected))
    ELSE LET tokens == split_whitespace(line.v.line)
         IN  IF Len(tokens) < 1 THEN Err(MissingField(expected))
             ELSE IF to_lowercase(tokens[1]) # <<expected>>
                  THEN Err(MismatchedField(expected, tokens[1]))
             ELSE IF Len(tokens) < 2 THEN Err(MissingValue(expected))
             ELSE IF parse(T, tokens[2]).tag = "Err"
                  THEN Err(TypeCast(tokens[2], tokens[1]))
             ELSE Ok(parse(T, tokens[2]).v)

\* parse_ll reporting a missing value as a value that does not parse
parse_ll_typecast(line, expected_prefix) ==
    IF line = None THEN Err(MissingField(expected_prefix))
    ELSE LET tokens == split_whitespace(line.v.line)
         IN  IF Len(tokens) < 1 THEN Err(MissingField(expected_prefix))
             ELSE IF CornerType_from_str(tokens[1]).tag = "Err"
                  THEN CornerType_from_str(tokens[1])
             ELSE IF Len(tokens) < 2 THEN Err(TypeCast(<<>>, tokens[1]))
             ELSE IF parse_num(tokens[2]).tag = "Err"
                  THEN Err(TypeCast(tokens[2], tokens[1]))
             ELSE Ok([corner |-> CornerType_from_str(tokens[1]).v,
                      value |-> parse_num(tokens[2]).v])

\* parse_ll(line, expected_prefix): (corner type, value)
parse_ll(line, expected_prefix) ==
    IF line = None THEN Err(MissingField(expected_prefix))
    ELSE LET tokens == split_whitespace(line.v.line)
         IN  IF Len(tokens) < 1 THEN Err(MissingField(expected_prefix))
             ELSE IF CornerType_from_str(tokens[1]).tag = "Err"
                  THEN CornerType_from_str(tokens[1])
             ELSE IF Len(tokens) < 2 THEN Err(MissingValue(expected_prefix))
             ELSE IF parse_num(tokens[2]).tag = "Err"
                  THEN Err(TypeCast(tokens[2], tokens[1]))
             ELSE Ok([corner |-> CornerType_from_str(tokens[1]).v,
                      value |-> parse_num(tokens[2]).v])

\* new without the shift of a center anchor to the cell's corner
new_no_shift(ncols, nrows, xll0, yll0, cornertype, cellsize, nodata_value) ==
    [ncols |-> ncols, nrows |-> nrows, xll |-> xll0, yll |-> yll0,
     yur |-> yll0 + cellsize * nrows, xur |-> xll0 + cellsize * ncols,
     cornertype |-> cornertype, cellsize |-> cellsize,
     nodata_value |-> nodata_value]

\* EsriASCIIRasterHeader::new
new(ncols, nrows, xll0, yll0, cornertype, cellsize, nodata_value) ==
    LET xll == IF cornertype = "Center" THEN xll0 - TruncDiv(cellsize, 2) ELSE xll0
        yll == IF cornertype = "Center" THEN yll0 - TruncDiv(cellsize, 2) ELSE yll0
    IN  [ncols |-> ncols, nrows |-> nrows, xll |-> xll, yll |-> yll,
         yur |-> yll + cellsize * nrows, xur |-> xll + cellsize * ncols,
         cornertype |-> cornertype, cellsize |-> cellsize,
         nodata_value |-> nodata_value]

\* the position after the n-th call of lines.next() from position pos
RECURSIVE AfterLines(_, _, _)
AfterLines(bytes, pos, n) ==
    IF n = 0 \/ read_line(bytes, pos) = None THEN pos
    ELSE AfterLines(bytes, read_line(bytes, pos).v.pos, n - 1)
\* the n-th line (n >= 1) that lines.next() returns from position pos
NthLine(bytes, pos, n) == read_line(bytes, AfterLines(bytes, pos, n - 1))

\* EsriASCIIRasterHeader::from_reader: the header and the position the reader
\* is left at.  lines.next() is called once per field, the optional
\* nodata_value included.
from_reader(bytes) ==
    LET ncols == parse_header_line(NthLine(bytes, 0, 1), "ncols", "usize")
        nrows == parse_header_line(NthLine(bytes, 0, 2), "nrows", "usize")
        xll == parse_ll(NthLine(bytes, 0, 3), "xll")
        yll == parse_ll(NthLine(bytes, 0, 4), "yll")
        cellsize == parse_header_line(NthLine(bytes, 0, 5), "cellsize", "T")
        nodata == parse_header_line(NthLine(bytes, 0, 6), "nodata_value", "T")
    IN  IF ncols.tag = "Err" THEN ncols
        ELSE IF nrows.tag = "Err" THEN nrows
        ELSE IF xll.tag = "Err" THEN xll
        ELSE IF yll.tag = "Err" THEN yll
        ELSE IF xll.v.corner # yll.v.corner THEN Err(BrokenInvariant)
        ELSE IF cellsize.tag = "Err" THEN cellsize
        ELSE Ok([header |-> new(ncols.v, nrows.v, xll.v.value, yll.v.value,
                                xll.v.corner, cellsize.v,
                                IF nodata.tag = "Ok" THEN Some(nodata.v) ELSE None),
                 pos |-> AfterLines(bytes, 0, 6)])

min_x(h) == h.xll
max_x(h) == h.xur
min_y(h) == h.yll
max_y(h) == h.yur
cell_size(h) == h.cellsize
num_rows(h) == h.nrows
num_cols(h) == h.ncols

\* index_pos counting rows from the bottom edge of the grid
index_pos_from_bottom(h, row, col) ==
    IF row >= h.nrows \/ col >= h.ncols THEN None
    ELSE Some(<<min_x(h) + cell_size(h) * col, min_y(h) + cell_size(h) * row>>)

\* index_pos with the top edge of the cell as its reference: the final
\* `- cell_size` is left out
index_pos_top_edge(h, row, col) ==
    IF row >= h.nrows \/ col >= h.ncols THEN None
    ELSE Some(<<min_x(h) + cell_size(h) * col, max_y(h) - cell_size(h) * row>>)

\* EsriASCIIRasterHeader::index_pos
index_pos(h, row, col) ==
    IF row >= h.nrows \/ col >= h.ncols THEN None
    ELSE Some(<<min_x(h) + cell_size(h) * col,
                max_y(h) - cell_size(h) * row - cell_size(h)>>)

\* index_of without the decrement at x = max_x and y = max_y
index_of_no_edge(h, x, y, overflow_checks) ==
    IF x < min_x(h) \/ x > max_x(h) \/ y < min_y(h) \/ y > max_y(h) THEN None
    ELSE IF cell_size(h) = 0 THEN Panic
    ELSE LET col == usize_from(TruncDiv(x - min_x(h), cell_size(h)))
             iy == usize_from(TruncDiv(y - min_y(h), cell_size(h)))
             r1 == IF iy = None THEN Panic
                   ELSE usize_sub(h.nrows, iy.v, overflow_checks)
             row == IF r1.tag = "Panic" THEN Panic
                    ELSE usize_sub(r1.v, 1, overflow_checks)
         IN  IF col = None \/ row.tag = "Panic" THEN Panic
             ELSE Some(<<row.v, col.v>>)

\* EsriASCIIRasterHeader::index_of; Some(<<row, col>>), None, or a panic
index_of(h, x, y, overflow_checks) ==
    IF x < min_x(h) \/ x > max_x(h) \/ y < min_y(h) \/ y > max_y(h) THEN None
    ELSE IF cell_size(h) = 0 THEN Panic
    ELSE LET dist_x == x - min_x(h)
             dist_y == y - min_y(h)
             index_x0 == TruncDiv(dist_x, cell_size(h))
             index_y0 == TruncDiv(dist_y, cell_size(h))
             index_x == IF x = max_x(h) THEN index_x0 - 1 ELSE index_x0
             index_y == IF y = max_y(h) THEN index_y0 - 1 ELSE index_y0
             col == usize_from(index_x)
             iy == usize_from(index_y)
             r1 == IF iy = None THEN Panic
                   ELSE usize_sub(h.nrows, iy.v, overflow_checks)
             row == IF r1.tag = "Panic" THEN Panic
                    ELSE usize_sub(r1.v, 1, overflow_checks)
         IN  IF col = None \/ row.tag = "Panic" THEN Panic
             ELSE Some(<<row.v, col.v>>)

\* ----------------------------------------------------------- ascii_file.rs
\* A reader value g is the struct EsriASCIIReader: header, reader (the stream
\* position of the BufReader), line_cache, line_start_cache, data_start and
\* line_seeker.  bytes is the content of the underlying file.

\* line.split_whitespace().map(parse).collect(): the values of a line, or
\* None when a token is not a number
parse_line(line) ==
    LET tokens == split_whitespace(line)
    IN  IF \E i \in 1..Len(tokens) : parse_num(tokens[i]).tag = "Err" THEN None
        ELSE Some([i \in 1..Len(tokens) |-> parse_num(tokens[i]).v])

\* EsriASCIIReader::from_file
from_file(bytes) ==
    LET r == from_reader(bytes)
    IN  IF r.tag = "Err" THEN r
        ELSE IF num_rows(r.v.header) = 0 THEN Panic
        ELSE LET h == r.v.header
                 data_start == r.v.pos
             IN  Ok([header |-> h,
                     reader |-> data_start,
                     line_cache |-> [row \in 0..(num_rows(h) - 1) |-> None],
                     line_start_cache |->
                         [row \in 0..(num_rows(h) - 1) |->
                             IF row = num_rows(h) - 1 THEN Some(data_start) ELSE None],
                     data_start |-> data_start,
                     line_seeker |-> [line |-> num_rows(h) - 1,
                                      position |-> data_start]])

\* the loop of build_index from `row` down to 0, the reader at g.reader
RECURSIVE build_index_loop(_, _, _)
build_index_loop(g, bytes, row) ==
    IF row < 0 THEN [res |-> Ok("unit"), g |-> g]
    ELSE LET g1 == [g EXCEPT !.line_start_cache[row] = Some(g.reader)]
             l == read_line(bytes, g.reader)
         IN  IF l = None
             THEN [res |-> Err(MismatchedRowCount(num_rows(g.header), row)), g |-> g1]
             ELSE build_index_loop([g1 EXCEPT !.reader = l.v.pos], bytes, row - 1)

\* a build_index that clears the row-value cache together with the offsets
build_index_clear_rows(g, bytes, seek_ok) ==
    LET num_rows_ == num_rows(g.header)
        cleared == [g EXCEPT !.line_start_cache = [row \in 0..(num_rows_ - 1) |-> None],
                             !.line_cache = [row \in 0..(num_rows_ - 1) |-> None]]
    IN  IF ~seek_ok THEN [res |-> Err([kind |-> "Io"]), g |-> cleared]
        ELSE build_index_loop([cleared EXCEPT !.reader = g.data_start], bytes, num_rows_ - 1)

\* EsriASCIIReader::build_index; seek_ok tells whether the seek to data_start
\* succeeds.  The offsets are cleared before the seek, whose error is
\* returned by `?`.
build_index(g, bytes, seek_ok) ==
    LET num_rows_ == num_rows(g.header)
        cleared == [g EXCEPT !.line_start_cache = [row \in 0..(num_rows_ - 1) |-> None]]
    IN  IF ~seek_ok THEN [res |-> Err([kind |-> "Io"]), g |-> cleared]
        ELSE build_index_loop([cleared EXCEPT !.reader = g.data_start], bytes, num_rows_ - 1)

\* the loop of seek_to_line recording the position before the line is read
\* instead of the position after it
RECURSIVE seek_loop_offset_before(_, _, _, _)
seek_loop_offset_before(g, bytes, row, i) ==
    IF i < row THEN [res |-> Ok("unit"), g |-> g]
    ELSE LET l == read_line(bytes, g.reader)
         IN  IF l = None
             THEN [res |-> Err(MismatchedRowCount(row, i)), g |-> g]
             ELSE seek_loop_offset_before(
                      [g EXCEPT !.reader = l.v.pos,
                                !.line_start_cache[i] = Some(g.reader)],
                      bytes, row, i - 1)

\* the loop of seek_to_line: i runs from latest_line - 1 down to row
RECURSIVE seek_loop(_, _, _, _)
seek_loop(g, bytes, row, i) ==
    IF i < row THEN [res |-> Ok("unit"), g |-> g]
    ELSE LET l == read_line(bytes, g.reader)
         IN  IF l = None
             THEN [res |-> Err(MismatchedRowCount(row, i)), g |-> g]
             ELSE seek_loop([g EXCEPT !.reader = l.v.pos,
                                      !.line_start_cache[i] = Some(l.v.pos)],
                            bytes, row, i - 1)

\* seek_to_line(reader, row, line_seeker, line_start_cache)
seek_to_line(g, bytes, row) ==
    LET latest_line == g.line_seeker.line
        latest_pos == g.line_seeker.position
        r == seek_loop([g EXCEPT !.reader = latest_pos], bytes, row, latest_line - 1)
    IN  IF r.res.tag = "Err" THEN r
        ELSE [res |-> Ok("unit"),
              g |-> [r.g EXCEPT !.line_seeker = [line |-> row, position |-> r.g.reader]]]

\* the tail of get_index: read one line at the reader's position, parse it,
\* cache it and return values[col]
read_row(g, bytes, row, col, path) ==
    LET l == read_line(bytes, g.reader)
    IN  IF l = None THEN [res |-> Panic, g |-> g, path |-> path]
        ELSE LET g1 == [g EXCEPT !.reader = l.v.pos]
                 values == parse_line(l.v.line)
             IN  IF values = None \/ col >= Len(values.v)
                 THEN [res |-> Panic, g |-> g1, path |-> path]
                 ELSE [res |-> Ok(values.v[col + 1]),
                       g |-> [g1 EXCEPT !.line_cache[row] = values],
                       path |-> path]

\* EsriASCIIReader::get_index; path tells which branch served the call
get_index(g, bytes, row, col) ==
    IF row >= g.header.nrows \/ col >= g.header.ncols
    THEN [res |-> Err(OutOfBounds(row, col)), g |-> g, path |-> "bounds"]
    ELSE IF g.line_cache[row] # None
    THEN [res |-> IF col < Len(g.line_cache[row].v)
                  THEN Ok(g.line_cache[row].v[col + 1]) ELSE Panic,
          g |-> g, path |-> "cache"]
    ELSE IF g.line_start_cache[row] # None
    THEN read_row([g EXCEPT !.reader = g.line_start_cache[row].v],
                  bytes, row, col, "offset")
    ELSE LET s == seek_to_line(g, bytes, row)
         IN  IF s.res.tag = "Err" THEN [res |-> s.res, g |-> s.g, path |-> "scan"]
             ELSE read_row(s.g, bytes, row, col, "scan")

\* EsriASCIIReader::get: `let (col, row) = self.header.index_of(x, y)?` binds
\* the first component of index_of's pair to col and the second to row
get(g, bytes, x, y, overflow_checks) ==
    LET i == index_of(g.header, x, y, overflow_checks)
    IN  IF i = None THEN [res |-> None, g |-> g]
        ELSE IF i.tag = "Panic" THEN [res |-> Panic, g |-> g]
        ELSE LET col == i.v[1]
                 row == i.v[2]
                 r == get_index(g, bytes, row, col)
             IN  IF r.res.tag = "Ok" THEN [res |-> Some(r.res.v), g |-> r.g]
                 ELSE [res |-> Panic, g |-> r.g]

\* ((v - min) / cellsize).floor() as usize, for v >= min
floor_index(v, min, cellsize) ==
    IF cellsize = 0 THEN 0 ELSE (v - min) \div cellsize

\* the element of a one-element set
The(S) == CHOOSE v \in S : TRUE

\* the blend of the four cell values of get_interpolate, as a fraction
\* num / den with den = cellsize * cellsize
blend(h, p, x, y, ll, lr, ul, ur) ==
    LET cs == cell_size(h)
        \* vert_weight = dx / cs, horiz_weight = dy / cs
        dx == x - p.v[1]
        dy == y - p.v[2]
    IN  [num |-> ul * (cs - dx) * dy + ur * dx * dy
                 + ll * (cs - dx) * (cs - dy) + lr * dx * (cs - dy),
         den |-> cs * cs, dx |-> dx, dy |-> dy]

\* EsriASCIIReader::get_interpolate.  The four get_index calls run in the
\* code's order, each on the reader the call before left; the first that is
\* not Ok panics in its unwrap().
get_interpolate(g, bytes, x, y, overflow_checks) ==
    LET h == g.header
        cmax == usize_sub(h.ncols, 2, overflow_checks)
        rmax == usize_sub(h.nrows, 2, overflow_checks)
    IN  IF x < min_x(h) \/ x > max_x(h) \/ y < min_y(h) \/ y > max_y(h)
        THEN [res |-> None, g |-> g]
        ELSE IF cmax.tag = "Panic" \/ rmax.tag = "Panic" THEN [res |-> Panic, g |-> g]
        ELSE LET ll_col == Min(floor_index(x, min_x(h), h.cellsize), cmax.v)
                 ll_row == Min(floor_index(y, min_y(h), h.cellsize), rmax.v)
                 p == index_pos(h, ll_row, ll_col)
             IN  IF p = None THEN [res |-> Panic, g |-> g]
                 ELSE The({
                   IF r1.res.tag # "Ok" THEN [res |-> Panic, g |-> r1.g]
                   ELSE The({
                     IF r2.res.tag # "Ok" THEN [res |-> Panic, g |-> r2.g]
                     ELSE The({
                       IF r3.res.tag # "Ok" THEN [res |-> Panic, g |-> r3.g]
                       ELSE The({
                         IF r4.res.tag # "Ok" THEN [res |-> Panic, g |-> r4.g]
                         ELSE [res |-> Some(blend(h, p, x, y, r1.res.v, r2.res.v,
                                                  r3.res.v, r4.res.v)
                                            @@ [ll_row |-> ll_row, ll_col |-> ll_col]),
                               g |-> r4.g]
                         : r4 \in {get_index(r3.g, bytes, ll_row + 1, ll_col + 1)}})
                       : r3 \in {get_index(r2.g, bytes, ll_row + 1, ll_col)}})
                     : r2 \in {get_index(r1.g, bytes, ll_row, ll_col + 1)}})
                   : r1 \in {get_index(g, bytes, ll_row, ll_col)}})

\* IntoIterator::into_iter
into_iter(g) ==
    [header |-> g.header,
     line_reader |-> [state |-> "Uninitialized", data_start |-> g.data_start,
                      reader |-> g.reader],
     row_it |-> None, row |-> 0, col |-> 0, terminated |-> FALSE]

\* a line reader that starts reading where the reader was left, without the
\* seek to data_start
LineReader_next_no_seek(lr, bytes, seek_ok) ==
    IF lr.state = "Invalid" THEN [item |-> None, lr |-> lr]
    ELSE LET l == read_line(bytes, lr.reader)
         IN  [item |-> IF l = None THEN None ELSE Some(Ok(l.v.line)),
              lr |-> [state |-> "Initialized", data_start |-> lr.data_start,
                      reader |-> IF l = None THEN lr.reader ELSE l.v.pos]]

\* a line reader that stays Uninitialized when the seek fails, to try again
LineReader_next_retry(lr, bytes, seek_ok) ==
    IF lr.state = "Uninitialized" /\ ~seek_ok
    THEN [item |-> Some(Err([kind |-> "Io"])), lr |-> lr]
    ELSE LET l == read_line(bytes, IF lr.state = "Uninitialized"
                                   THEN lr.data_start ELSE lr.reader)
         IN  [item |-> IF l = None THEN None ELSE Some(Ok(l.v.line)),
              lr |-> [state |-> "Initialized", data_start |-> lr.data_start,
                      reader |-> IF l # None THEN l.v.pos
                                 ELSE IF lr.state = "Uninitialized"
                                 THEN lr.data_start ELSE lr.reader]]

\* <LineReader as Iterator>::next; seek_ok tells whether the initial seek to
\* data_start succeeds
LineReader_next(lr, bytes, seek_ok) ==
    IF lr.state = "Uninitialized"
    THEN IF seek_ok
         THEN LET l == read_line(bytes, lr.data_start)
              IN  [item |-> IF l = None THEN None ELSE Some(Ok(l.v.line)),
                   lr |-> [state |-> "Initialized", data_start |-> lr.data_start,
                           reader |-> IF l = None THEN lr.data_start ELSE l.v.pos]]
         ELSE [item |-> Some(Err([kind |-> "Io"])),
               lr |-> [state |-> "Invalid", data_start |-> lr.data_start,
                       reader |-> lr.reader]]
    ELSE IF lr.state = "Invalid" THEN [item |-> None, lr |-> lr]
    ELSE LET l == read_line(bytes, lr.reader)
         IN  [item |-> IF l = None THEN None ELSE Some(Ok(l.v.line)),
              lr |-> IF l = None THEN lr ELSE [lr EXCEPT !.reader = l.v.pos]]

\* the first block of next: the current row is used up
advance_row(it) ==
    IF it.col >= it.header.ncols
    THEN LET it1 == [it EXCEPT !.row_it = None, !.row = it.row + 1, !.col = 0]
         IN  IF it1.row >= it1.header.nrows
             THEN [done |-> TRUE, it |-> [it1 EXCEPT !.terminated = TRUE]]
             ELSE [done |-> FALSE, it |-> it1]
    ELSE [done |-> FALSE, it |-> it]

\* a last block of next that numbers the rows from the top: the first data
\* line is row 0
yield_value_row_from_top(it) ==
    IF it.row_it = None THEN [item |-> Panic, it |-> it]
    ELSE IF it.row_it.v = <<>>
    THEN [item |-> Some(Err(MismatchColumnCount(it.header.ncols, it.col))), it |-> it]
    ELSE [item |-> Some(Ok(<<it.row, it.col, Head(it.row_it.v)>>)),
          it |-> [it EXCEPT !.row_it = Some(Tail(it.row_it.v)), !.col = it.col + 1]]

\* the last block of next: take the next value of the loaded row
yield_value(it) ==
    IF it.row_it = None THEN [item |-> Panic, it |-> it]
    ELSE IF it.row_it.v = <<>>
    THEN [item |-> Some(Err(MismatchColumnCount(it.header.ncols, it.col))), it |-> it]
    ELSE [item |-> Some(Ok(<<it.header.nrows - 1 - it.row, it.col, Head(it.row_it.v)>>)),
          it |-> [it EXCEPT !.row_it = Some(Tail(it.row_it.v)), !.col = it.col + 1]]

\* <EsriASCIIRasterIntoIterator as Iterator>::next: the item returned (None,
\* Some(Ok(<<row, col, value>>)), Some(Err(e)) or a panic) and the iterator after
Iterator_next(it, bytes, seek_ok) ==
    IF it.terminated THEN [item |-> None, it |-> it]
    ELSE LET a == advance_row(it)
         IN  IF a.done THEN [item |-> None, it |-> a.it]
             ELSE IF a.it.row_it # None THEN yield_value(a.it)
             ELSE LET n == LineReader_next(a.it.line_reader, bytes, seek_ok)
                      it1 == [a.it EXCEPT !.line_reader = n.lr]
                  IN  IF n.item = None
                      THEN [item |-> None, it |-> [it1 EXCEPT !.terminated = TRUE]]
                      ELSE IF n.item.v.tag = "Err"
                      THEN [item |-> n.item, it |-> [it1 EXCEPT !.terminated = TRUE]]
                      ELSE IF parse_line(n.item.v.v) = None
                           \* the Err built in this arm is dropped, not returned
                           THEN yield_value([it1 EXCEPT !.terminated = TRUE])
                           ELSE yield_value([it1 EXCEPT
                                               !.row_it = parse_line(n.item.v.v)])

\* ------------------------------------------------------------- input files
\* decimal digits of a natural number, and of an integer
RECURSIVE RenderNat(_)
RenderNat(n) ==
    IF n < 10 THEN <<Digits[n + 1]>>
    ELSE Append(RenderNat(n \div 10), Digits[(n % 10) + 1])
RenderNum(n) == IF n < 0 THEN <<"-">> \o RenderNat(0 - n) ELSE RenderNat(n)

\* tokens joined by single blanks, ended by NL
RECURSIVE RenderLine(_)
RenderLine(tokens) ==
    IF tokens = <<>> THEN <<NL>>
    ELSE IF Len(tokens) = 1 THEN Head(tokens) \o <<NL>>
    ELSE Head(tokens) \o <<SP>> \o RenderLine(Tail(tokens))
RECURSIVE RenderLines(_)
RenderLines(lines) ==
    IF lines = <<>> THEN <<>> ELSE RenderLine(Head(lines)) \o RenderLines(Tail(lines))

\* the value written at column c of the k-th data line (k = 0 is the first
\* line after the header): all cells differ, and the width in bytes varies
CellValue(k, c, ncols) == 8 + k * ncols + c

\* the header lines of a file (lib.rs, the example grid)
HeaderLines(ncols, nrows, xll, yll, cellsize, corner, nodata) ==
    << <<<<"ncols">>, RenderNum(ncols)>>,
       <<<<"nrows">>, RenderNum(nrows)>>,
       <<<<IF corner = "Corner" THEN "xllcorner" ELSE "xllcenter">>, RenderNum(xll)>>,
       <<<<IF corner = "Corner" THEN "yllcorner" ELSE "yllcenter">>, RenderNum(yll)>>,
       <<<<"cellsize">>, RenderNum(cellsize)>> >>
    \o (IF nodata THEN << <<<<"NODATA_value">>, RenderNum(0 - 9)>> >> ELSE <<>>)

\* the data lines; defect.kind damages line defect.line (0-based):
\*   "short"   the line lacks its last token
\*   "long"    the line has one token more
\*   "nonnum"  the last token of the line is not a number
\*   "missing" the file ends before that line
DataLine(k, ncols, defect) ==
    LET full == [c \in 1..ncols |-> RenderNum(CellValue(k, c - 1, ncols))]
    IN  IF defect.kind = "none" \/ defect.line # k THEN full
        ELSE IF defect.kind = "short" THEN SubSeq(full, 1, ncols - 1)
        ELSE IF defect.kind = "long" THEN Append(full, <<"7">>)
        ELSE IF defect.kind = "nonnum" THEN [full EXCEPT ![ncols] = <<"x">>]
        ELSE full
DataLines(ncols, nrows, defect) ==
    [k \in 1..(IF defect.kind = "missing" THEN defect.line ELSE nrows) |->
        DataLine(k - 1, ncols, defect)]

\* the header lines with line defect.line (1 = ncols .. 5 = cellsize) damaged:
\*   "h_missing"   the line is left out, the lines after it follow
\*   "h_name"      the field name is a word that is no field name
\*   "h_swap"      the anchor line carries the name of the other axis
\*   "h_novalue"   the line ends after the field name
\*   "h_badvalue"  the value is not a number
HeaderKinds == {"h_missing", "h_name", "h_swap", "h_novalue", "h_badvalue"}
OtherAxis(name) ==
    CASE name = "xllcorner" -> "yllcorner"
      [] name = "yllcorner" -> "xllcorner"
      [] name = "xllcenter" -> "yllcenter"
      [] name = "yllcenter" -> "xllcenter"
      [] OTHER -> name
DamageHeader(lines, defect) ==
    LET k == defect.line
    IN  IF defect.kind \notin HeaderKinds THEN lines
        ELSE IF defect.kind = "h_missing"
             THEN SubSeq(lines, 1, k - 1) \o SubSeq(lines, k + 1, Len(lines))
        ELSE IF defect.kind = "h_name"
             THEN [lines EXCEPT ![k] = <<<<"bogus">>, lines[k][2]>>]
        ELSE IF defect.kind = "h_swap"
             THEN [lines EXCEPT ![k] = <<<<OtherAxis(lines[k][1][1])>>, lines[k][2]>>]
        ELSE IF defect.kind = "h_novalue"
             THEN [lines EXCEPT ![k] = <<lines[k][1]>>]
        ELSE [lines EXCEPT ![k] = <<lines[k][1], <<"x">>>>]

MakeFile(ncols, nrows, xll, yll, cellsize, corner, nodata, defect) ==
    RenderLines(DamageHeader(HeaderLines(ncols, nrows, xll, yll, cellsize, corner, nodata),
                             defect)
                \o DataLines(ncols, nrows, defect))

NoDefect == [kind |-> "none", line |-> 0]
Defects(nrows) ==
    {NoDefect} \cup
    [kind : {"short", "long", "nonnum", "missing"}, line : 0..(nrows - 1)]
HeaderDefects ==
    [kind : HeaderKinds \ {"h_swap"}, line : 1..5] \cup [kind : {"h_swap"}, line : {3, 4}]

\* ------------------------------------------------------------------- state
VARIABLES
    file,    \* the bytes of the underlying file
    shape,   \* what the file was written from: ncols, nrows, nodata, defect
    phase,   \* "open" | "iterating" | "failed" | "panicked"
    grid,    \* the EsriASCIIReader (from_file's result when it failed)
    iter,    \* the EsriASCIIRasterIntoIterator, None before into_iter
    out,     \* the items next() has returned so far
    ret      \* the last call and its result
vars == <<file, shape, phase, grid, iter, out, ret>>

Shape(ncols, nrows, xll, yll, cellsize, corner, nodata, defect) ==
    [ncols |-> ncols, nrows |-> nrows, xll |-> xll, yll |-> yll,
     cellsize |-> cellsize, corner |-> corner, nodata |-> nodata, defect |-> defect]
\* the state after EsriASCIIReader::from_file(file), for the file written
\* from sh
Opened(sh) ==
    /\ shape = sh
    /\ file = MakeFile(shape.ncols, shape.nrows, shape.xll, shape.yll, shape.cellsize,
                       shape.corner, shape.nodata, shape.defect)
    /\ ret = [op |-> "from_file", res |-> from_file(file)]
    /\ phase = IF ret.res.tag = "Ok" THEN "open"
               ELSE IF ret.res.tag = "Err" THEN "failed" ELSE "panicked"
    /\ grid = IF ret.res.tag = "Ok" THEN ret.res.v ELSE None
    /\ iter = None
    /\ out = <<>>

\* the file holds nrows data lines of ncols numbers each
WellFormed == shape.defect = NoDefect

\* ----------------------------------------------------------------- actions
\* the caller holds no result: the next call can be made
Idle == ret.op \in {"from_file", "idle"}
AfterCall(res) == IF res.tag = "Panic" THEN "panicked" ELSE phase
\* the coordinates tried: every point from one cell size below the lower
\* bound to one cell size above the upper bound
Xs == (min_x(grid.header) - cell_size(grid.header))
          ..(max_x(grid.header) + cell_size(grid.header))
Ys == (min_y(grid.header) - cell_size(grid.header))
          ..(max_y(grid.header) + cell_size(grid.header))

\* header.index_of(x, y)
IndexOf(x, y, oc) ==
    /\ phase = "open"
    /\ Idle
    /\ ret' = [op |-> "index_of", x |-> x, y |-> y,
               res |-> index_of(grid.header, x, y, oc)]
    /\ UNCHANGED <<file, shape, phase, grid, iter, out>>

\* header.index_pos(row, col)
IndexPos(row, col) ==
    /\ phase = "open"
    /\ Idle
    /\ ret' = [op |-> "index_pos", row |-> row, col |-> col,
               res |-> index_pos(grid.header, row, col)]
    /\ UNCHANGED <<file, shape, phase, grid, iter, out>>

\* grid.get_index(row, col)
GetIndex(row, col) ==
    /\ phase = "open"
    /\ Idle
    /\ LET r == get_index(grid, file, row, col)
       IN  /\ grid' = r.g
           /\ ret' = [op |-> "get_index", row |-> row, col |-> col,
                      res |-> r.res, path |-> r.path]
           /\ phase' = AfterCall(r.res)
    /\ UNCHANGED <<file, shape, iter, out>>

\* grid.get(x, y)
Get(x, y, oc) ==
    /\ phase = "open"
    /\ Idle
    /\ LET r == get(grid, file, x, y, oc)
       IN  /\ grid' = r.g
           /\ ret' = [op |-> "get", x |-> x, y |-> y, res |-> r.res]
           /\ phase' = AfterCall(r.res)
    /\ UNCHANGED <<file, shape, iter, out>>

\* grid.get_interpolate(x, y)
GetInterpolate(x, y, oc) ==
    /\ phase = "open"
    /\ Idle
    /\ LET r == get_interpolate(grid, file, x, y, oc)
       IN  /\ grid' = r.g
           /\ ret' = [op |-> "get_interpolate", x |-> x, y |-> y, res |-> r.res]
           /\ phase' = AfterCall(r.res)
    /\ UNCHANGED <<file, shape, iter, out>>

\* grid.build_index()
BuildIndex(seek_ok) ==
    /\ phase = "open"
    /\ Idle
    /\ LET r == build_index(grid, file, seek_ok)
       IN  /\ grid' = r.g
           /\ ret' = [op |-> "build_index", res |-> r.res]
    /\ UNCHANGED <<file, shape, phase, iter, out>>

\* grid.into_iter(): the reader is moved into the iterator
IntoIter ==
    /\ phase = "open"
    /\ Idle
    /\ iter' = Some(into_iter(grid))
    /\ phase' = "iterating"
    /\ UNCHANGED <<file, shape, grid, out, ret>>

\* the calls of next() that returned None or Err, or panicked
Ended(items) == {i \in 1..Len(items) : items[i].tag # "Some" \/ items[i].v.tag # "Ok"}

\* iter.next(); after the first None or Err the caller tries ExtraCalls more
Next_(seek_ok) ==
    /\ phase = "iterating"
    /\ Cardinality(Ended(out)) <= ExtraCalls
    /\ LET r == Iterator_next(iter.v, file, seek_ok)
       IN  /\ iter' = Some(r.it)
           /\ out' = Append(out, r.item)
           /\ phase' = AfterCall(r.item)
    /\ UNCHANGED <<file, shape, grid, ret>>

\* the caller has taken the result of the last call
Resume ==
    /\ phase = "open"
    /\ ~Idle
    /\ ret' = [op |-> "idle"]
    /\ UNCHANGED <<file, shape, phase, grid, iter, out>>

\* ---------------------------------------------------------- specifications
Dims == (1..MaxCols) \X (1..MaxRows)

\* the build profiles to tell apart: overflow checks matter only where a usize
\* subtraction can underflow
Profiles == IF grid.header.ncols < 2 \/ grid.header.nrows < 2 THEN BOOLEAN ELSE {TRUE}

\* Spec: random access on a reader opened on a well-formed file, with or
\* without the optional nodata_value line
Init ==
    \E d \in Dims, corner \in {"Corner", "Center"}, nodata \in BOOLEAN :
        Opened(Shape(d[1], d[2], 0, 0, 2, corner, nodata, NoDefect))
Next ==
    \/ \E row \in 0..grid.header.nrows, col \in 0..grid.header.ncols : GetIndex(row, col)
    \/ \E x \in Xs, y \in Ys, oc \in Profiles : Get(x, y, oc)
    \/ \E x \in Xs, y \in Ys, oc \in Profiles : GetInterpolate(x, y, oc)
    \/ BuildIndex(TRUE)
    \/ Resume
Spec == Init /\ [][Next]_vars

\* SpecIndex: get_index and build_index on a reader opened on a file,
\* well-formed or with one defect
InitIndex ==
    \E d \in Dims, nodata \in BOOLEAN :
        \E defect \in Defects(d[2]) :
            Opened(Shape(d[1], d[2], 0, 0, 2, "Corner", nodata, defect))
NextIndex ==
    \/ \E row \in 0..grid.header.nrows, col \in 0..grid.header.ncols : GetIndex(row, col)
    \/ BuildIndex(TRUE)
    \/ Resume
SpecIndex == InitIndex /\ [][NextIndex]_vars

\* SpecIo: get_index and build_index on a reader opened on a file,
\* well-formed or with one defect, where the seek to data_start of
\* build_index succeeds or fails
NextIo ==
    \/ \E row \in 0..grid.header.nrows, col \in 0..grid.header.ncols : GetIndex(row, col)
    \/ \E seek_ok \in BOOLEAN : BuildIndex(seek_ok)
    \/ Resume
SpecIo == InitIndex /\ [][NextIo]_vars

\* SpecMap: the coordinate mapper on the header of a file
InitMap ==
    \E d \in Dims, corner \in {"Corner", "Center"},
       xll \in {0 - 3, 0, 10}, yll \in {0 - 5, 0}, cellsize \in {1, 2, 3} :
        Opened(Shape(d[1], d[2], xll, yll, cellsize, corner, TRUE, NoDefect))
NextMap ==
    \/ \E x \in Xs, y \in Ys, oc \in BOOLEAN : IndexOf(x, y, oc)
    \/ \E row \in 0..grid.header.nrows, col \in 0..grid.header.ncols : IndexPos(row, col)
    \/ Resume
SpecMap == InitMap /\ [][NextMap]_vars

\* SpecHeader: opening a file whose header is whole or damaged in one line
\* and declares any dimensions and cell size, zero and negative included, then
\* indexing it
InitHeader ==
    \E ncols \in 0..MaxCols, nrows \in 0..MaxRows, cellsize \in {0 - 2, 0, 2},
       corner \in {"Corner", "Center"}, nodata \in BOOLEAN :
        \E defect \in {NoDefect} \cup HeaderDefects :
            Opened(Shape(ncols, nrows, 0, 0, cellsize, corner, nodata, defect))
NextHeader ==
    \/ BuildIndex(TRUE)
    \/ Resume
SpecHeader == InitHeader /\ [][NextHeader]_vars

\* SpecAfter: random access on a reader opened on a well-formed file, then
\* iteration over it
NextAfter ==
    \/ Next
    \/ IntoIter
    \/ Next_(TRUE)
SpecAfter == Init /\ [][NextAfter]_vars

\* SpecIter: iteration over a file, well-formed or with one defect
InitIter ==
    \E d \in Dims, nodata \in BOOLEAN :
        \E defect \in Defects(d[2]) :
            Opened(Shape(d[1], d[2], 0, 0, 2, "Corner", nodata, defect))
NextIter ==
    \/ IntoIter
    \/ Next_(TRUE)
SpecIter == InitIter /\ [][NextIter]_vars

\* SpecSeek: iteration over a file, well-formed or with one defect, where
\* the seek to data_start of the first next() succeeds or fails
NextSeek ==
    \/ IntoIter
    \/ \E seek_ok \in BOOLEAN : Next_(seek_ok)
SpecSeek == InitIter /\ [][NextSeek]_vars

\* ------------------------------------------------------------------ claims
InBounds(row, col) == row < grid.header.nrows /\ col < grid.header.ncols
Rows == 0..(grid.header.nrows - 1)
Cols == 0..(grid.header.ncols - 1)
Inside(x, y) ==
    /\ min_x(grid.header) <= x /\ x <= max_x(grid.header)
    /\ min_y(grid.header) <= y /\ y <= max_y(grid.header)
IsOkItem(item) == item.tag = "Some" /\ item.v.tag = "Ok"
IsErrItem(item) == item.tag = "Some" /\ item.v.tag = "Err"

\* C1: on a well-formed file get_index(row, col) returns the col-th value of
\* the (row+1)-th data line: row 0 is the first data line of the file.
\* (Stated for files that carry the nodata_value line.)
C1_RowZeroIsFirstDataLine ==
    (phase = "open" /\ WellFormed /\ shape.nodata /\ ret.op = "get_index"
        /\ InBounds(ret.row, ret.col))
    => ret.res = Ok(CellValue(ret.row, ret.col, shape.ncols))

\* C2: for every in-bounds cell (row, col), get at index_pos(row, col) returns
\* Some(v) with v the value get_index(row, col) returns.
C2_GetEqualsGetIndex ==
    (WellFormed /\ shape.nodata /\ ret.op = "get")
    => \A row \in Rows, col \in Cols :
           index_pos(grid.header, row, col) = Some(<<ret.x, ret.y>>)
           => /\ ret.res.tag = "Some"
              /\ get_index(grid, file, row, col).res = Ok(ret.res.v)

\* C3: on a well-formed file get returns Some at every point of the closed
\* bounds, the four corners included, and never panics there; it returns None
\* one cell size outside a corner on either axis.
OutsideCorner(x, y) ==
    LET h == grid.header
    IN  \/ /\ x \in {min_x(h) - cell_size(h), max_x(h) + cell_size(h)}
           /\ y \in {min_y(h), max_y(h)}
        \/ /\ x \in {min_x(h), max_x(h)}
           /\ y \in {min_y(h) - cell_size(h), max_y(h) + cell_size(h)}
C3_GetInsideBounds ==
    (WellFormed /\ shape.nodata /\ ret.op = "get")
    => /\ Inside(ret.x, ret.y) => ret.res.tag = "Some"
       /\ OutsideCorner(ret.x, ret.y) => ret.res = None

\* C4: iterating a well-formed file yields exactly nrows * ncols Ok items and
\* then None, and the (row, col) pairs of the items are every pair of
\* [0, nrows) x [0, ncols) exactly once.
C4_IterYieldsEveryCell ==
    WellFormed
    => \A i \in 1..Len(out) :
           IF i <= shape.nrows * shape.ncols
           THEN /\ IsOkItem(out[i])
                /\ out[i].v.v[1] \in 0..(shape.nrows - 1)
                /\ out[i].v.v[2] \in 0..(shape.ncols - 1)
                /\ \A j \in 1..(i - 1) :
                       <<out[j].v.v[1], out[j].v.v[2]>> # <<out[i].v.v[1], out[i].v.v[2]>>
           ELSE out[i] = None

\* C5: once next() has returned an Err or None, every later call returns None.
C5_TerminalAbsorbing ==
    \A i \in 1..Len(out), j \in 1..Len(out) :
        (i < j /\ (out[i] = None \/ IsErrItem(out[i]))) => out[j] = None

\* C6: if one of the first nrows data lines has fewer or more than ncols
\* tokens, the iteration never completes with only Ok items.
CompletedAllOk ==
    \E i \in 1..Len(out) : out[i] = None /\ \A j \in 1..(i - 1) : IsOkItem(out[j])
C6_MismatchNeverCompletes ==
    (shape.nodata /\ shape.defect.kind \in {"short", "long"}) => ~CompletedAllOk

\* C7: the value get_index(row, col) returns is fixed by (row, col) and the
\* bytes of the file, whatever calls came before and whichever path serves it:
\* it is the col-th number of the line nrows - 1 - row lines below the sixth
\* line of the file.
LinesBeforeData == IF shape.nodata THEN 6 ELSE 5
C8_OutOfBoundsExactly ==
    [][(Idle /\ ret'.op = "get_index")
       => /\ (ret'.res = Err(OutOfBounds(ret'.row, ret'.col)))
               <=> ~InBounds(ret'.row, ret'.col)
          /\ ~InBounds(ret'.row, ret'.col) => grid' = grid
          /\ (WellFormed /\ InBounds(ret'.row, ret'.col)) => ret'.res.tag = "Ok"]_vars

MissingCellsize == shape.defect = [kind |-> "h_missing", line |-> 5]
C13_MissingCellsizeMissingField ==
    MissingCellsize
    => /\ phase = "failed" /\ grid = None
       /\ ret.res.tag = "Err" /\ ret.res.e.kind = "MissingField"
\* C13 amended: the open fails, without a panic and without a reader, with
\* Error::MismatchedField naming cellsize and the first token of the line that
\* follows (the nodata_value line, else the first data row); it fails with
\* Error::MissingField only when no line or a blank line follows.
C13_MissingCellsizeMismatchedField ==
    MissingCellsize
    => /\ phase = "failed" /\ grid = None
       /\ ret.res =
            IF shape.nodata
            THEN Err(MismatchedField("cellsize", <<"NODATA_value">>))
            ELSE IF shape.nrows >= 1 /\ shape.ncols >= 1
            THEN Err(MismatchedField("cellsize",
                                     RenderNum(CellValue(0, 0, shape.ncols))))
            ELSE Err(MissingField("cellsize"))
C13_Witness ==
    /\ MissingCellsize /\ ~shape.nodata /\ phase = "failed"
    /\ ret.res = Err(MismatchedField("cellsize", <<"8">>))

\* C14: for each required header line (ncols, nrows, the X anchor, the Y
\* anchor, cellsize) a field name that is not the expected one makes the open
\* fail with Error::MismatchedField.
C14_WrongNameMismatchedField ==
    (shape.defect.kind \in {"h_name", "h_swap"} /\ ret.op = "from_file")
    => ret.res.tag = "Err" /\ ret.res.e.kind = "MismatchedField"

\* C15 as stated: a required header line with the expected field name whose
\* value is missing, or does not parse as the expected numeric type, makes the
\* open fail with Error::TypeCast.
C15_BadValueTypeCast ==
    (shape.defect.kind \in {"h_novalue", "h_badvalue"} /\ ret.op = "from_file")
    => ret.res.tag = "Err" /\ ret.res.e.kind = "TypeCast"
\* C15 amended: a value that does not parse makes the open fail with
\* Error::TypeCast naming the value and the field; a missing value makes it
\* fail with Error::MissingValue.
FieldName(line) ==
    HeaderLines(shape.ncols, shape.nrows, shape.xll, shape.yll, shape.cellsize,
                shape.corner, shape.nodata)[line][1]
C15_MissingValueOrTypeCast ==
    /\ shape.defect.kind = "h_badvalue"
          => ret.res = Err(TypeCast(<<"x">>, FieldName(shape.defect.line)))
    /\ shape.defect.kind = "h_novalue"
          => /\ ret.res.tag = "Err" /\ ret.res.e.kind = "MissingValue"
             /\ shape.defect.line \in {1, 2, 5}
                   => ret.res = Err(MissingValue(FieldName(shape.defect.line)[1]))
C15_Witness ==
    /\ shape.defect = [kind |-> "h_novalue", line |-> 3]
    /\ phase = "failed" /\ grid = None
    /\ ret.res.tag = "Err" /\ ret.res.e.kind = "MissingValue"

\* C16: after a successful open data_start is the byte offset of the first
\* character of the first data row, with and without the optional
\* nodata_value line, and a file without that line opens with
\* no_data_value = None.
HeaderBytes ==
    Len(RenderLines(HeaderLines(shape.ncols, shape.nrows, shape.xll, shape.yll,
                                shape.cellsize, shape.corner, shape.nodata)))
C16_DataStartAtFirstRow ==
    grid # None
    => /\ grid.data_start = HeaderBytes
       /\ ~shape.nodata => grid.header.nodata_value = None

\* C17: every header of a successful open has ncols >= 1, nrows >= 1 and
\* cellsize > 0; a file declaring ncols 0, nrows 0 or a cellsize <= 0 is
\* rejected with an error, and the open does not panic.
C17_HeaderValidated ==
    (ret.op = "from_file" /\ shape.defect = NoDefect)
    => /\ ret.res.tag = "Ok"
             => /\ ret.res.v.header.ncols >= 1 /\ ret.res.v.header.nrows >= 1
                /\ ret.res.v.header.cellsize > 0
       /\ (shape.ncols = 0 \/ shape.nrows = 0 \/ shape.cellsize <= 0)
             => ret.res.tag = "Err"

\* C18: build_index returns Err(MismatchedRowCount) exactly when the file
\* holds fewer than nrows data lines after the header, and Ok(()) otherwise,
\* whatever get_index calls came before.
DataLinesHeld == IF shape.defect.kind = "missing" THEN shape.defect.line ELSE shape.nrows
C18_BuildIndexRowCount ==
    ret.op = "build_index"
    => IF DataLinesHeld < shape.nrows
       THEN ret.res.tag = "Err" /\ ret.res.e.kind = "MismatchedRowCount"
       ELSE ret.res = Ok("unit")

\* C19: when the file holds fewer data lines than nrows, get_index(row, col)
\* on an in-bounds row whose line is absent returns Err(MismatchedRowCount)
\* and does not panic, by forward scan and by a recorded offset alike.  (Row
\* r is read from the data line nrows - 1 - r; stated for files that carry
\* the nodata_value line.)
C19_AbsentLineErr ==
    (shape.nodata /\ shape.defect.kind = "missing" /\ ret.op = "get_index"
        /\ InBounds(ret.row, ret.col)
        /\ shape.nrows - 1 - ret.row >= DataLinesHeld)
    => ret.res.tag = "Err" /\ ret.res.e.kind = "MismatchedRowCount"

\* C20: get_index on a data line whose token count differs from ncols returns
\* Err(MismatchColumnCount), and on a line holding a non-numeric token a parse
\* error; it does not panic and leaves the row's entry of the value cache
\* empty.  (Stated for files that carry the nodata_value line.)
C20_BadLineErr ==
    (shape.nodata /\ shape.defect.kind \in {"short", "long", "nonnum"}
        /\ ret.op = "get_index" /\ InBounds(ret.row, ret.col)
        /\ shape.nrows - 1 - ret.row = shape.defect.line)
    => /\ ret.res.tag = "Err"
       /\ shape.defect.kind \in {"short", "long"}
             => ret.res.e.kind = "MismatchColumnCount"
       /\ grid.line_cache[ret.row] = None

\* C21: on a well-formed file of any valid size, single row and single column
\* included, get_interpolate(x, y) returns None exactly when the point lies
\* outside the closed bounds, and for every point inside it returns Some, the
\* four cells it reads having their indices inside the grid; no index
\* subtraction underflows.  (Stated for files that carry the nodata_value
\* line.)
C21_InterpolateInside ==
    (WellFormed /\ shape.nodata /\ ret.op = "get_interpolate")
    => /\ (ret.res = None) <=> ~Inside(ret.x, ret.y)
       /\ Inside(ret.x, ret.y)
             => /\ ret.res.tag = "Some"
                /\ InBounds(ret.res.v.ll_row, ret.res.v.ll_col)
                /\ InBounds(ret.res.v.ll_row + 1, ret.res.v.ll_col + 1)

\* the value get_index(row, col) returns on a well-formed file that carries
\* the nodata_value line
CellAt(row, col) == CellValue(shape.nrows - 1 - row, col, shape.ncols)
\* get_interpolate returned exactly the value v
Interpolated(v) == ret.res.tag = "Some" /\ ret.res.v.num = v * ret.res.v.den

\* C22: get_interpolate at a corner of the bounds returns the value of the
\* cell index_of assigns to that corner: get_index(nrows-1, 0) at
\* (min_x, min_y), get_index(0, ncols-1) at (max_x, max_y), get_index(0, 0)
\* at (min_x, max_y) and get_index(nrows-1, ncols-1) at (max_x, min_y).
\* (Stated for files that carry the nodata_value line and hold at least two
\* rows and two columns.)
C22_InterpolateCorners ==
    (WellFormed /\ shape.nodata /\ shape.nrows >= 2 /\ shape.ncols >= 2
        /\ ret.op = "get_interpolate")
    => LET h == grid.header
       IN  /\ (ret.x = min_x(h) /\ ret.y = min_y(h))
                 => Interpolated(CellAt(h.nrows - 1, 0))
           /\ (ret.x = max_x(h) /\ ret.y = max_y(h))
                 => Interpolated(CellAt(0, h.ncols - 1))
           /\ (ret.x = min_x(h) /\ ret.y = max_y(h))
                 => Interpolated(CellAt(0, 0))
           /\ (ret.x = max_x(h) /\ ret.y = min_y(h))
                 => Interpolated(CellAt(h.nrows - 1, h.ncols - 1))

\* C23: the iterator scans the data forwards, left to right and top to
\* bottom: the items of an earlier data line all come before those of a later
\* one, within a line the column runs 0, 1, ..., ncols-1, and the row
\* component is nrows-1 for the first data line and one less for each line
\* after it, down to 0.
C23_IterOrder ==
    (WellFormed /\ phase = "iterating")
    => \A i \in 1..Len(out) :
          IsOkItem(out[i])
          => LET k == (i - 1) \div shape.ncols
                 c == (i - 1) % shape.ncols
             IN  out[i].v.v = <<shape.nrows - 1 - k, c, CellValue(k, c, shape.ncols)>>

\* the data lines from_reader took for header lines: one when the file has
\* no nodata_value line
LinesTaken == 6 - LinesBeforeData
\* the i-th item of an iteration over the file, as the file alone determines
\* it
ItemOfFile(i) ==
    LET k == (i - 1) \div shape.ncols
        c == (i - 1) % shape.ncols
    IN  IF i <= (shape.nrows - LinesTaken) * shape.ncols
        THEN Some(Ok(<<shape.nrows - 1 - k, c, CellValue(k + LinesTaken, c, shape.ncols)>>))
        ELSE None

\* C24: the items into_iter() yields are the same whatever get_index, get,
\* get_interpolate and build_index calls came before it: the iterator reads
\* from data_start and takes nothing from the reader's position, the offset
\* cache, the row-value cache or the scan cursor.
C24_IterIgnoresReaderState ==
    phase = "iterating" => \A i \in 1..Len(out) : out[i] = ItemOfFile(i)
\* a whole iteration after the reader was moved, a row cached and the scan
\* cursor taken to row 0
C24_Witness ==
    /\ phase = "iterating"
    /\ Len(out) = (shape.nrows - LinesTaken) * shape.ncols + 1
    /\ Len(out) > 1
    /\ grid.reader # grid.data_start
    /\ grid.line_seeker.line = 0
    /\ \E row \in Rows : grid.line_cache[row] # None

\* the byte offset at which the k-th data line of the file starts (k = 0 is
\* the first line after the header)
LineOffset(k) ==
    HeaderBytes
    + Len(RenderLines(SubSeq(DataLines(shape.ncols, shape.nrows, shape.defect), 1, k)))
\* every row has an entry in the offset cache
AllOffsets(g) == \A row \in Rows : g.line_start_cache[row] # None

LineOfRow(row) ==
    DataLine(shape.nrows - 1 - row + LinesTaken, shape.ncols, shape.defect)

\* C26: after a successful get_index(row, col) the row-value cache holds the
\* complete parsed line of row, and a later get_index(row, c) with c < ncols
\* returns the cached value without seeking or reading: the reader position,
\* the scan cursor and the offset cache are as they were before the call.
C26_CacheHitFrame ==
    [][(phase = "open" /\ Idle /\ ret'.op = "get_index")
       => /\ ret'.res.tag = "Ok"
                => /\ grid'.line_cache[ret'.row] # None
                   /\ Len(grid'.line_cache[ret'.row].v) = Len(LineOfRow(ret'.row))
                   /\ \A c \in Cols :
                         c < Len(LineOfRow(ret'.row))
                         => grid'.line_cache[ret'.row].v[c + 1]
                                = CellValue(shape.nrows - 1 - ret'.row + LinesTaken,
                                            c, shape.ncols)
          /\ (InBounds(ret'.row, ret'.col) /\ grid.line_cache[ret'.row] # None)
                => /\ ret'.path = "cache"
                   /\ ret'.res.tag = "Ok"
                   /\ ret'.res.v = grid.line_cache[ret'.row].v[ret'.col + 1]
                   /\ grid' = grid]_vars

\* C27: both caches only grow: once a row has an entry in the row-value
\* cache or in the offset cache, no later operation, succeeding or failing,
\* removes the entry or changes it.
C27_CachesOnlyGrow ==
    [][phase = "open"
       => \A row \in Rows :
             /\ grid.line_cache[row] # None
                   => grid'.line_cache[row] = grid.line_cache[row]
             /\ grid.line_start_cache[row] # None
                   => grid'.line_start_cache[row] = grid.line_start_cache[row]]_vars

\* the byte offset at which the line the reader reads for row starts: the
\* line nrows-1-row lines below data_start
RowStart(row) == AfterLines(file, grid.data_start, shape.nrows - 1 - row)
\* the scan cursor and the offset cache agree
CursorAgrees ==
    /\ \A row \in Rows :
          /\ row >= grid.line_seeker.line => grid.line_start_cache[row] # None
          /\ grid.line_start_cache[row] # None
                => grid.line_start_cache[row].v = RowStart(row)
    /\ grid.line_start_cache[grid.line_seeker.line]
           = Some(grid.line_seeker.position)

\* C28: in every reachable state the scan cursor and the offset cache agree:
\* every row from the cursor's starting row nrows-1 down to line_seeker.line
\* has an offset entry, every entry is the byte offset at which the row's
\* line starts, and line_seeker.position is the entry of row
\* line_seeker.line; a forward scan is never asked for a row on the
\* already-scanned side of the cursor.
C28_CursorAndOffsets ==
    /\ [](phase = "open" => CursorAgrees)
    /\ [][(phase = "open" /\ Idle /\ ret'.op = "get_index" /\ ret'.path = "scan")
          => ret'.row < grid.line_seeker.line]_vars

\* C29: when the iterator loads a data line that holds a non-numeric token,
\* next() returns one Err carrying the parse error and every later call
\* returns None: it does not panic and yields no Ok item from that line.
\* (Stated for files that carry the nodata_value line.)
C29_IterParseErr ==
    (shape.nodata /\ shape.defect.kind = "nonnum")
    => LET before == shape.defect.line * shape.ncols
       IN  \A i \in 1..Len(out) :
              /\ i <= before => IsOkItem(out[i])
              /\ i = before + 1 => IsErrItem(out[i])
              /\ i > before + 1 => out[i] = None

\* the line reader of the iterator, and whether the seek of its first next()
\* has failed
ReaderState == IF iter = None THEN "Uninitialized" ELSE iter.v.line_reader.state
SeekFailed(items) == \E i \in 1..Len(items) : items[i] = Some(Err([kind |-> "Io"]))

\* C30: the line reader leaves Uninitialized on its first next(), for
\* Initialized or, when the seek to data_start fails, for Invalid, and never
\* moves again; a failed seek makes the first next() yield that one I/O
\* error, and every later next() of the line reader and of the cell iterator
\* returns None.
C30_LineReaderStates ==
    /\ [][/\ ReaderState # "Uninitialized" => ReaderState' = ReaderState
          /\ (phase = "iterating" /\ ReaderState = "Uninitialized"
                  /\ out' # out /\ out'[Len(out')] # Panic)
                => ReaderState' = (IF SeekFailed(out') THEN "Invalid" ELSE "Initialized")]_vars
    /\ [](ReaderState = "Invalid"
          => /\ out[1] = Some(Err([kind |-> "Io"]))
             /\ \A i \in 2..Len(out) : out[i] = None
             /\ \A seek_ok \in BOOLEAN :
                   LineReader_next(iter.v.line_reader, file, seek_ok).item = None)
    /\ [](SeekFailed(out) => ReaderState = "Invalid")
\* the seek failed at the first next() and the caller called next() again
C30_Witness ==
    /\ ReaderState = "Invalid"
    /\ Len(out) >= 2
    /\ out[2] = None

\* C31: iteration and random access number the rows the same way: for every
\* item Ok((row, col, value)) the iteration of a well-formed file yields,
\* get_index(row, col) returns that value, on a reader just opened on the
\* file and on the reader in the state the calls before into_iter left it.
C31_IterMatchesGetIndex ==
    (WellFormed /\ phase = "iterating")
    => \A i \in 1..Len(out) :
          IsOkItem(out[i])
          => /\ get_index(from_file(file).v, file, out[i].v.v[1], out[i].v.v[2]).res
                    = Ok(out[i].v.v[3])
             /\ get_index(grid, file, out[i].v.v[1], out[i].v.v[2]).res
                    = Ok(out[i].v.v[3])
\* the iteration has come to row 0 of a grid of several rows, on a reader
\* that had scanned to row 0 before
C31_Witness ==
    /\ WellFormed /\ phase = "iterating" /\ shape.nrows >= 2
    /\ grid.line_seeker.line = 0
    /\ \E i \in 1..Len(out) : IsOkItem(out[i]) /\ out[i].v.v[1] = 0

\* C32: an iteration never ends silently short: when next() returns None and
\* no Err was yielded before, exactly nrows * ncols Ok items were yielded; a
\* file holding fewer than nrows data lines makes the iteration yield an Err.
\* (Stated for files that carry the nodata_value line.)
C32_NeverSilentlyShort ==
    shape.nodata
    => \A i \in 1..Len(out) :
          (out[i] = None /\ \A j \in 1..(i - 1) : IsOkItem(out[j]))
          => i - 1 = shape.nrows * shape.ncols

\* C33: the anchor lines are accepted only in their fixed positions: a
\* header whose third line is named yllcorner or yllcenter, or whose fourth
\* line is named xllcorner or xllcenter, is rejected with an error, as is one
\* whose third or fourth line carries no anchor name at all.  (Stated for
\* headers that declare ncols >= 1, nrows >= 1 and a cellsize > 0.)
C33_AnchorsInPosition ==
    (ret.op = "from_file" /\ shape.defect.kind \in {"h_swap", "h_name"}
        /\ shape.defect.line \in {3, 4}
        /\ shape.ncols >= 1 /\ shape.nrows >= 1 /\ shape.cellsize > 0)
    => ret.res.tag = "Err"

\* C34: get_interpolate never extrapolates: for every point inside the closed
\* bounds of a grid of at least two rows and two columns, the offsets
\* x - ll_x and y - ll_y from the position index_pos gives for the chosen
\* lower-left neighbour both lie in [0, cellsize], so that the four blend
\* weights lie in [0, 1] and sum to 1.  (Stated for files that carry the
\* nodata_value line.)
C34_NoExtrapolation ==
    (WellFormed /\ shape.nodata /\ shape.nrows >= 2 /\ shape.ncols >= 2
        /\ ret.op = "get_interpolate" /\ Inside(ret.x, ret.y))
    => /\ ret.res.tag = "Some"
       /\ 0 <= ret.res.v.dx /\ ret.res.v.dx <= cell_size(grid.header)
       /\ 0 <= ret.res.v.dy /\ ret.res.v.dy <= cell_size(grid.header)

====
